---- MODULE Spec2Model ----
(***************************************************************************)
(* Model of the renderer process of electron-bar-graph                     *)
(* (src/build/renderer.js): the configuration loader, the colour          *)
(* assignment, the input parser, the canvas renderer, the SVG exporter,    *)
(* the raster exporter, the hand-off to Emacs and the handlers wired to    *)
(* the user interface.                                                     *)
(*                                                                         *)
(* Texts are sequences of one-character strings.  JavaScript numbers are   *)
(* modelled as extended rationals [n, d]: d > 0 is the finite value n/d in *)
(* lowest terms, and d = 0 encodes Infinity (n = 1), -Infinity (n = -1)    *)
(* and NaN (n = 0).  The sign of zero is not modelled.                     *)
(***************************************************************************)
EXTENDS Integers, Sequences, FiniteSets, TLC

----------------------------------------------------------------------------
(* Bounds of the model *)

\* longest values text enumerated character by character
MaxValueLen == 3
\* longest labels text enumerated character by character
MaxLabelLen == 2
\* largest number of bars of the generated many-bar inputs
MaxBars == 72
\* largest number of bars coloured under every colour setting
MaxColors == 5
\* Open-in-Emacs requests that reach the availability check in one session
MaxRequests == 1
\* handler runs (user actions and callbacks) in one session
MaxSteps == 3
\* Open-in-Emacs requests in flight at once where requests overlap
MaxOverlap == 2
\* handler runs (user actions and callbacks) while requests overlap
MaxEvents == 5

----------------------------------------------------------------------------
(* JavaScript numbers *)

Abs(i) == IF i < 0 THEN -i ELSE i

RECURSIVE GCD(_, _)
GCD(a, b) == IF b = 0 THEN a ELSE GCD(b, a % b)

\* the finite number n/d (d # 0) in lowest terms with a positive denominator
Rat(n, d) ==
  LET s == IF d < 0 THEN -1 ELSE 1
      g == GCD(Abs(n), Abs(d))
  IN  [n |-> (s * n) \div g, d |-> (s * d) \div g]

Num(i) == [n |-> i, d |-> 1]
Infinity == [n |-> 1, d |-> 0]
NegInfinity == [n |-> -1, d |-> 0]
NaN == [n |-> 0, d |-> 0]

isNaN(x) == x.d = 0 /\ x.n = 0
isFinite(x) == x.d > 0
Sign(x) == IF x.n > 0 THEN 1 ELSE IF x.n < 0 THEN -1 ELSE 0

\* a < b of IEEE numbers (false as soon as one side is NaN)
Less(a, b) == ~isNaN(a) /\ ~isNaN(b) /\ a.n * b.d < b.n * a.d
LessEq(a, b) == ~isNaN(a) /\ ~isNaN(b) /\ a.n * b.d <= b.n * a.d

Plus(a, b) ==
  IF isNaN(a) \/ isNaN(b) THEN NaN
  ELSE IF a.d = 0 /\ b.d = 0 THEN (IF a.n = b.n THEN a ELSE NaN)
  ELSE IF a.d = 0 THEN a
  ELSE IF b.d = 0 THEN b
  ELSE Rat(a.n * b.d + b.n * a.d, a.d * b.d)

Neg(a) == [n |-> -a.n, d |-> a.d]

Minus(a, b) == Plus(a, Neg(b))

Times(a, b) ==
  IF isNaN(a) \/ isNaN(b) THEN NaN
  ELSE IF a.d = 0 \/ b.d = 0
       THEN [n |-> Sign(a) * Sign(b), d |-> 0]
  ELSE Rat(a.n * b.n, a.d * b.d)

Over(a, b) ==
  IF isNaN(a) \/ isNaN(b) THEN NaN
  ELSE IF a.d = 0 THEN (IF b.d = 0 THEN NaN
                        ELSE [n |-> a.n * (IF b.n < 0 THEN -1 ELSE 1), d |-> 0])
  ELSE IF b.d = 0 THEN Num(0)
  ELSE IF b.n = 0 THEN [n |-> Sign(a), d |-> 0]
  ELSE Rat(a.n * b.d, a.d * b.n)

\* Math.max of two numbers
MathMax2(a, b) ==
  IF isNaN(a) \/ isNaN(b) THEN NaN ELSE IF Less(a, b) THEN b ELSE a

\* Math.max over xs[lo..hi], by halves
RECURSIVE MathMaxRange(_, _, _)
MathMaxRange(xs, lo, hi) ==
  IF lo > hi THEN NegInfinity
  ELSE IF lo = hi THEN xs[lo]
  ELSE MathMax2(MathMaxRange(xs, lo, (lo + hi) \div 2),
                MathMaxRange(xs, (lo + hi) \div 2 + 1, hi))

\* Math.max(...xs): -Infinity for no argument, NaN as soon as one is NaN
MathMax(xs) == MathMaxRange(xs, 1, Len(xs))

----------------------------------------------------------------------------
(* JavaScript strings *)

Whitespace == {" "}
Digits == {"0", "1", "2", "3", "4", "5", "6", "7", "8", "9"}

DigitValue(c) ==
  CASE c = "0" -> 0 [] c = "1" -> 1 [] c = "2" -> 2 [] c = "3" -> 3
    [] c = "4" -> 4 [] c = "5" -> 5 [] c = "6" -> 6 [] c = "7" -> 7
    [] c = "8" -> 8 [] c = "9" -> 9

\* String.prototype.split(","): the pieces between the commas, empty ones kept.
\* The pieces of s[lo..hi] are those of its two halves, the last piece of the
\* left half running on into the first piece of the right half.
RECURSIVE SplitRange(_, _, _)
SplitRange(s, lo, hi) ==
  IF lo > hi THEN << <<>> >>
  ELSE IF lo = hi THEN (IF s[lo] = "," THEN << <<>>, <<>> >> ELSE << <<s[lo]>> >>)
  ELSE LET mid == (lo + hi) \div 2
           left == SplitRange(s, lo, mid)
           right == SplitRange(s, mid + 1, hi)
       IN  SubSeq(left, 1, Len(left) - 1)
             \o << left[Len(left)] \o right[1] >> \o Tail(right)

split(s) == SplitRange(s, 1, Len(s))

\* String.prototype.trim()
RECURSIVE TrimLeft(_)
TrimLeft(s) ==
  IF s # <<>> /\ Head(s) \in Whitespace THEN TrimLeft(Tail(s)) ELSE s

RECURSIVE TrimRight(_)
TrimRight(s) ==
  IF s # <<>> /\ s[Len(s)] \in Whitespace
  THEN TrimRight(SubSeq(s, 1, Len(s) - 1)) ELSE s

trim(s) == TrimRight(TrimLeft(s))

\* the length of the run of decimal digits of s that starts at index i
RECURSIVE DigitRun(_, _)
DigitRun(s, i) ==
  IF i <= Len(s) /\ s[i] \in Digits THEN 1 + DigitRun(s, i + 1) ELSE 0

\* the integer written by the k digits of s that start at index i
RECURSIVE DigitsValue(_, _, _)
DigitsValue(s, i, k) ==
  IF k = 0 THEN 0
  ELSE 10 * DigitsValue(s, i, k - 1) + DigitValue(s[i + k - 1])

RECURSIVE Pow10(_)
Pow10(k) == IF k = 0 THEN 1 ELSE 10 * Pow10(k - 1)

InfinityLiteral == <<"I", "n", "f", "i", "n", "i", "t", "y">>

HasPrefixAt(s, i, p) ==
  /\ i + Len(p) - 1 <= Len(s)
  /\ \A k \in 1..Len(p) : s[i + k - 1] = p[k]

\* parseFloat: leading white space is skipped, then the longest prefix that is
\* a decimal literal (sign, digits, fraction) or a signed Infinity is read; NaN
\* when there is none.  Exponents are not modelled: none of the input texts of
\* this model has a digit followed by e or E.
parseFloat(str) ==
  LET s == TrimLeft(str)
      neg == s # <<>> /\ s[1] = "-"
      start == IF s # <<>> /\ s[1] \in {"-", "+"} THEN 2 ELSE 1
      ilen == DigitRun(s, start)
      dot == start + ilen <= Len(s) /\ s[start + ilen] = "."
      flen == IF dot THEN DigitRun(s, start + ilen + 1) ELSE 0
      mag == Rat(DigitsValue(s, start, ilen) * Pow10(flen)
                   + DigitsValue(s, start + ilen + 1, flen), Pow10(flen))
  IN  IF HasPrefixAt(s, start, InfinityLiteral)
      THEN (IF neg THEN NegInfinity ELSE Infinity)
      ELSE IF ilen + flen = 0 THEN NaN
      ELSE IF neg THEN Neg(mag) ELSE mag

----------------------------------------------------------------------------
(* Pictures: what the canvas shows, and what an exported document holds *)

CanvasWidth == 760
CanvasHeight == 400

NoPicture ==
  [width |-> CanvasWidth, height |-> CanvasHeight, bg |-> "none",
   bars |-> <<>>, labels |-> <<>>, axes |-> <<>>, ticks |-> <<>>]

\* ctx.clearRect(0, 0, w, h); ctx.fillStyle = "white"; ctx.fillRect(0, 0, w, h)
ClearedPicture == [NoPicture EXCEPT !.bg = "white"]

----------------------------------------------------------------------------
(* Colours *)

TextColor(t) == [kind |-> "text", text |-> t, r |-> NaN, g |-> NaN, b |-> NaN]
\* the template `rgb(${r}, ${g}, ${b})`
RgbColor(r, g, b) == [kind |-> "rgb", text |-> <<>>, r |-> r, g |-> g, b |-> b]
\* the template `hsl(${hue}, 70%, 50%)`
HslColor(hue) ==
  [kind |-> "hsl", text |-> <<>>, r |-> hue, g |-> Num(70), b |-> Num(50)]

HexDigits == Digits \cup {"a", "b", "c", "d", "e", "f", "A", "B", "C", "D", "E", "F"}

HexValue(c) ==
  CASE c \in Digits -> DigitValue(c)
    [] c \in {"a", "A"} -> 10 [] c \in {"b", "B"} -> 11 [] c \in {"c", "C"} -> 12
    [] c \in {"d", "D"} -> 13 [] c \in {"e", "E"} -> 14 [] c \in {"f", "F"} -> 15

\* hexToRgb: /^#?([a-f\d]{2})([a-f\d]{2})([a-f\d]{2})$/i, null when no match
hexToRgb(hex) ==
  LET h == IF hex # <<>> /\ hex[1] = "#" THEN Tail(hex) ELSE hex
  IN  IF Len(h) = 6 /\ \A k \in 1..6 : h[k] \in HexDigits
      THEN [null |-> FALSE,
            r |-> 16 * HexValue(h[1]) + HexValue(h[2]),
            g |-> 16 * HexValue(h[3]) + HexValue(h[4]),
            b |-> 16 * HexValue(h[5]) + HexValue(h[6])]
      ELSE [null |-> TRUE, r |-> 0, g |-> 0, b |-> 0]

\* Math.round of a finite number: the nearest integer, halves upwards
MathRound(x) == Num((2 * x.n + x.d) \div (2 * x.d))

\* a ratio that divides the step by the number of steps
RatioOfCount(i, steps) == Rat(i, steps)

\* const ratio = steps === 1 ? 0 : i / (steps - 1)
Ratio(i, steps) == IF steps = 1 THEN Num(0) ELSE Rat(i, steps - 1)

\* generateGradientColors; reading a channel of a null colour throws, which
\* callers see as the result "throws"
generateGradientColors(color1, color2, steps) ==
  LET c1 == hexToRgb(color1)
      c2 == hexToRgb(color2)
      mix(a, b, i) ==
        MathRound(Plus(Num(a), Times(Num(b - a), Ratio(i, steps))))
  IN  IF steps > 0 /\ (c1.null \/ c2.null)
      THEN [throws |-> TRUE, colors |-> <<>>]
      ELSE [throws |-> FALSE,
            colors |-> [k \in 1..steps |->
                          RgbColor(mix(c1.r, c2.r, k - 1), mix(c1.g, c2.g, k - 1),
                                   mix(c1.b, c2.b, k - 1))]]

\* a hue that counts the steps from one
HueOfStepClosed(i, count) == Rat((i + 1) * 360, count)

\* const hue = (i * 360) / count
HueOfStep(i, count) == Rat(i * 360, count)

generateRainbowColors(count) ==
  [k \in 1..count |-> HslColor(HueOfStep(k - 1, count))]

\* a fill that adds one entry
FilledLong(count, value) == [k \in 1..(count + 1) |-> value]

\* Array(count).fill(value)
Filled(count, value) == [k \in 1..count |-> value]

\* an index that stays on the last entry of a short list
PaletteIndexClamped(i, length) == IF i < length THEN i ELSE length - 1

\* the index i % customColorList.length of the repeating branch
PaletteIndex(i, length) == i % length

\* generateColors(count) under the colour controls' current values
generateColors(count, mode, primary, secondary, custom) ==
  CASE mode = "gradient" -> generateGradientColors(primary, secondary, count)
    [] mode = "rainbow" ->
         [throws |-> FALSE, colors |-> generateRainbowColors(count)]
    [] mode = "custom" ->
         LET raw == split(custom)
             customColorList == [k \in 1..Len(raw) |-> trim(raw[k])]
         IN  [throws |-> FALSE,
              colors |->
                IF Len(customColorList) >= count
                THEN [k \in 1..count |-> TextColor(customColorList[k])]
                ELSE [k \in 1..count |->
                        TextColor(customColorList[
                          PaletteIndex(k - 1, Len(customColorList)) + 1])]]
    [] OTHER -> [throws |-> FALSE, colors |-> Filled(count, TextColor(primary))]

----------------------------------------------------------------------------
(* The input parser *)

MismatchMessage == "Error: Number of values must match the number of labels."

\* valueText.split(",").map((x) => parseFloat(x.trim()))
ParsedTokens(valueText) ==
  LET raw == split(valueText)
  IN  [k \in 1..Len(raw) |-> parseFloat(trim(raw[k]))]

\* a filter that keeps every parsed token
KeepValueUnfiltered(val) == TRUE

\* the test of .filter((val) => !isNaN(val))
KeepValue(val) == ~isNaN(val)

\* a map that leaves negative values as they are
ClampValueIdentity(val) == val

\* the body of .map((val) => Math.max(0, val))
ClampValue(val) == MathMax2(Num(0), val)

\* a label list that drops the entries that are empty after trimming
ParsedLabelsNonEmpty(labelText) ==
  LET raw == split(labelText)
      trimmed == [k \in 1..Len(raw) |-> trim(raw[k])]
  IN  SelectSeq(trimmed, LAMBDA label : label # <<>>)

\* the label list: labelText.split(",").map((x) => x.trim())
ParsedLabels(labelText) ==
  LET raw == split(labelText)
  IN  [k \in 1..Len(raw) |-> trim(raw[k])]

\* a length comparison that aligns the two lists on the shorter one
CheckedSeriesTruncating(dataValues, labels) ==
  LET shorter == IF Len(dataValues) < Len(labels) THEN Len(dataValues)
                 ELSE Len(labels)
  IN  [dataValues |-> SubSeq(dataValues, 1, shorter),
       labels |-> SubSeq(labels, 1, shorter), hasError |-> FALSE,
       message |-> ""]

\* the result of the length comparison of parseInputValues
CheckedSeries(dataValues, labels) ==
  IF Len(dataValues) # Len(labels)
  THEN [dataValues |-> <<>>, labels |-> <<>>, hasError |-> TRUE,
        message |-> MismatchMessage]
  ELSE [dataValues |-> dataValues, labels |-> labels, hasError |-> FALSE,
        message |-> ""]

\* parseInputValues: the returned object, and in message the text it leaves in
\* the error element (it calls displayError("") first).  Nothing in the try
\* block can throw on two strings, so the catch branch is not modelled.
parseInputValues(valueText, labelText) ==
  LET kept == SelectSeq(ParsedTokens(valueText), KeepValue)
      dataValues == [k \in 1..Len(kept) |-> ClampValue(kept[k])]
  IN  CheckedSeries(dataValues, ParsedLabels(labelText))

----------------------------------------------------------------------------
(* The canvas renderer and the SVG exporter *)

topPadding == 30
bottomPadding == 40
sidePadding == 30
barSpacing == 10
svgWidth == 760
svgHeight == 400

Bar(x, y, w, h, fill) == [x |-> x, y |-> y, w |-> w, h |-> h, fill |-> fill]
Label(text, x, y) == [text |-> text, x |-> x, y |-> y]
Line(x1, y1, x2, y2) == [x1 |-> x1, y1 |-> y1, x2 |-> x2, y2 |-> y2]
Tick(value, x, y) == [value |-> value, x |-> x, y |-> y]

\* Number.prototype.toFixed(1) of a number that is not negative
toFixed1(v) ==
  IF isFinite(v) THEN Rat((20 * v.n + v.d) \div (2 * v.d), 10) ELSE v

\* what k rounds of xOffset += barWidth + barSpacing add up to; the sum is
\* taken by halves, which is the loop's sum in exact arithmetic
RECURSIVE Advance(_, _)
Advance(k, barWidth) ==
  IF k = 0 THEN Num(0)
  ELSE IF k = 1 THEN Plus(barWidth, Num(barSpacing))
  ELSE Plus(Advance(k \div 2, barWidth), Advance(k - k \div 2, barWidth))

\* xOffset when the loop reaches bar i (1-based): let xOffset = sidePadding,
\* then xOffset += barWidth + barSpacing after every bar
XOffset(i, barWidth) == Plus(Num(sidePadding), Advance(i - 1, barWidth))

\* a scale that divides by the maximum whatever it is
ScaleOfUnguarded(graphHeight, maxValue) == Over(Num(graphHeight), maxValue)

\* graphHeight / (maxValue > 0 ? maxValue : 1)
ScaleOf(graphHeight, maxValue) ==
  Over(Num(graphHeight), IF Less(Num(0), maxValue) THEN maxValue ELSE Num(1))

\* a bar width that is left as computed
CanvasBarWidthUnfloored(width, numBars) ==
  LET graphWidth == width - 2 * sidePadding
      availableWidthForBars == graphWidth - (numBars - 1) * barSpacing
  IN  IF numBars > 0 THEN Rat(availableWidthForBars, numBars) ELSE Num(0)

\* the bar width of drawGraph
CanvasBarWidth(width, numBars) ==
  LET graphWidth == width - 2 * sidePadding
      availableWidthForBars == graphWidth - (numBars - 1) * barSpacing
      barWidth == IF numBars > 0 THEN Rat(availableWidthForBars, numBars)
                  ELSE Num(0)
  IN  IF LessEq(barWidth, Num(0)) THEN Num(1) ELSE barWidth

\* the bar width of exportSVG
SvgBarWidth(numBars) ==
  LET graphWidth == svgWidth - 2 * sidePadding
      availableWidthForBars == graphWidth - (numBars - 1) * barSpacing
  IN  Rat(availableWidthForBars, numBars)

\* a loop that fills every bar with the first colour of the assignment
LoopBarsFirstColor(dataValues, barWidth, scale, baseY, barColors) ==
  [i \in 1..Len(dataValues) |->
     LET barHeight == Times(dataValues[i], scale)
     IN  Bar(XOffset(i, barWidth), Minus(Num(baseY), barHeight), barWidth,
             barHeight, barColors[1])]

\* the bars and bar labels both renderers emit in their loop
LoopBars(dataValues, barWidth, scale, baseY, barColors) ==
  [i \in 1..Len(dataValues) |->
     LET barHeight == Times(dataValues[i], scale)
     IN  Bar(XOffset(i, barWidth), Minus(Num(baseY), barHeight), barWidth,
             barHeight, barColors[i])]

\* a label is drawn for bar i when labels[i] !== undefined
LoopLabels(dataValues, labels, barWidth, textY) ==
  LET shown == IF Len(labels) < Len(dataValues) THEN Len(labels)
               ELSE Len(dataValues)
  IN  [i \in 1..shown |->
         Label(labels[i], Plus(XOffset(i, barWidth), Over(barWidth, Num(2))),
               Num(textY))]

\* drawGraph(dataValues, labels): the canvas afterwards, and whether the call
\* threw (generateColors reading a null colour) after the canvas was cleared
drawGraph(dataValues, labels, mode, primary, secondary, custom) ==
  LET numBars == Len(dataValues)
      graphHeight == CanvasHeight - topPadding - bottomPadding
      barWidth == CanvasBarWidth(CanvasWidth, numBars)
      maxValue == MathMax(dataValues)
      scale == ScaleOf(graphHeight, maxValue)
      barColors == generateColors(numBars, mode, primary, secondary, custom)
      baseY == CanvasHeight - bottomPadding
  IN  IF numBars = 0 THEN [picture |-> ClearedPicture, throws |-> FALSE]
      ELSE IF barColors.throws THEN [picture |-> ClearedPicture, throws |-> TRUE]
      ELSE [throws |-> FALSE,
            picture |->
              [width |-> CanvasWidth, height |-> CanvasHeight, bg |-> "white",
               bars |-> LoopBars(dataValues, barWidth, scale, baseY, barColors.colors),
               labels |-> LoopLabels(dataValues, labels, barWidth, baseY + 5),
               axes |-> <<Line(sidePadding, baseY, CanvasWidth - sidePadding, baseY),
                          Line(sidePadding, topPadding, sidePadding, baseY)>>,
               ticks |-> <<Tick(toFixed1(maxValue), sidePadding - 5, topPadding),
                           Tick(Num(0), sidePadding - 5, baseY + 5)>>]]

\* the document exportSVG builds for a series that is not empty
svgDocument(dataValues, labels, mode, primary, secondary, custom) ==
  LET numBars == Len(dataValues)
      graphHeight == svgHeight - topPadding - bottomPadding
      barWidth == SvgBarWidth(numBars)
      maxValue == MathMax(dataValues)
      scale == ScaleOf(graphHeight, maxValue)
      barColors == generateColors(numBars, mode, primary, secondary, custom)
      baseY == svgHeight - bottomPadding
  IN  IF barColors.throws THEN [picture |-> NoPicture, throws |-> TRUE]
      ELSE [throws |-> FALSE,
            picture |->
              [width |-> svgWidth, height |-> svgHeight, bg |-> "white",
               bars |-> LoopBars(dataValues, barWidth, scale, baseY, barColors.colors),
               labels |-> LoopLabels(dataValues, labels, barWidth, baseY + 20),
               axes |-> <<Line(sidePadding, baseY, svgWidth - sidePadding, baseY),
                          Line(sidePadding, topPadding, sidePadding, baseY)>>,
               ticks |-> <<Tick(toFixed1(maxValue), sidePadding - 10, topPadding),
                           Tick(Num(0), sidePadding - 10, baseY)>>]]

----------------------------------------------------------------------------
(* Input texts *)

\* <<"1", "0">> and the like are written with the characters of the text
ValueAlphabet == {"1", "0", "-", ",", " "}
LabelAlphabet == {"A", ",", " "}

RECURSIVE TextsUpTo(_, _)
TextsUpTo(alphabet, len) ==
  IF len = 0 THEN {<<>>}
  ELSE LET shorter == TextsUpTo(alphabet, len - 1)
       IN  shorter \cup {Append(t, c) : t \in shorter, c \in alphabet}

\* n copies of the token, separated by commas
RECURSIVE Repeated(_, _)
Repeated(token, n) ==
  IF n = 1 THEN token
  ELSE Repeated(token, n \div 2) \o <<",">> \o Repeated(token, n - n \div 2)

\* the texts of index.html, of the tests and of the spec's examples
DefaultValues == <<"1", "0", ",", "2", "0", ",", "3", "0", ",", "4", "0">>
DefaultLabels == <<"A", ",", "B", ",", "C", ",", "D">>
DropExample == <<"1", "0", ",", "a", "b", "c", ",", "2", "0">>
ClampExample == <<"1", "0", ",", "-", "5", ",", "3", "0">>
FractionExample == <<"1", "0", ",", "2", "0", ".", "5", ",", "3", "0", ".", "7">>
InfinityExample ==
  <<"1", "0", ",", "I", "n", "f", "i", "n", "i", "t", "y", ",", "3", "0">>
NegInfinityExample == <<"-", "I", "n", "f", "i", "n", "i", "t", "y", ",", "4">>
TwoLabels == <<"A", ",", "B">>
ThreeLabels == <<"A", ",", "B", ",", "C">>

ManyBarCounts == (MaxBars - 2)..MaxBars

ValueTexts ==
  TextsUpTo(ValueAlphabet, MaxValueLen)
    \cup {DefaultValues, DropExample, ClampExample, FractionExample,
          InfinityExample, NegInfinityExample}
    \cup {Repeated(<<"1">>, n) : n \in ManyBarCounts}

LabelTexts ==
  TextsUpTo(LabelAlphabet, MaxLabelLen)
    \cup {DefaultLabels, TwoLabels, ThreeLabels}
    \cup {Repeated(<<"A">>, n) : n \in ManyBarCounts}

\* the texts a user types during a session
SessionValues == {DefaultValues, <<"7", ",", "x", ",", "0">>}
SessionLabels == {DefaultLabels, TwoLabels}

DefaultPrimary == <<"#", "3", "4", "9", "8", "d", "b">>
DefaultSecondary == <<"#", "e", "7", "4", "c", "3", "c">>
Red == <<"#", "f", "f", "0", "0", "0", "0">>
Blue == <<"#", "0", "0", "0", "0", "f", "f">>
Green == <<"#", "0", "0", "f", "f", "0", "0">>

ColorModes == {"single", "gradient", "rainbow", "custom"}
PrimaryColors == {DefaultPrimary, Red}
SecondaryColors == {DefaultSecondary, Blue}
CustomTexts == {<<>>, Red \o <<",">> \o Green}

\* the colour settings every mode is run on: a mode value no case of the
\* switch names, colours of the two pickers, and custom colour texts with
\* one, two and three entries, with and without blanks around them
UnknownMode == "striped"
White == <<"#", "f", "f", "f", "f", "f", "f">>
PickerColors == {DefaultPrimary, DefaultSecondary, Red, Blue, White}
PaletteTexts ==
  {<<>>, Red, Red \o <<",">> \o Green,
   <<" ">> \o Red \o <<" ", ",">> \o Green \o <<",", " ">> \o Blue}
ColorCounts == 1..MaxColors

----------------------------------------------------------------------------
(* State *)

VARIABLES
  valuesInput,          \* valuesInput.value
  labelsInput,          \* labelsInput.value
  colorMode,            \* colorMode.value
  primaryColor,         \* primaryColor.value
  secondaryColor,       \* secondaryColor.value
  customColors,         \* customColors.value
  secondaryDisplay,     \* style.display of secondaryColor and of its label
  customDisplay,        \* style.display of customColors and of its label
  canvas,               \* what the canvas shows
  parsed,               \* the object parseInputValues returned last
  errorMessage,         \* errorMessageDiv.textContent
  download,             \* the file the last handler saved, if it saved one
  configFile,           \* config.h as loadConfiguration found it
  EMACS_INTEGRATION,    \* window.EMACS_INTEGRATION: "true", "false", "undefined"
  DEBUG,                \* window.DEBUG: "true", "false", "undefined"
  VERBOSE,              \* window.VERBOSE: "true", "false", "undefined"
  emacsSectionDisplay,  \* emacsSection.style.display
  requests,             \* the Open-in-Emacs requests that spawned a check
  tempScript,           \* temp-bar-graph.el: 0 when absent, else its writer
  uncaught,             \* an error left a handler or a callback uncaught
  lastAction,           \* the handler or callback that ran last
  steps                 \* the number of user actions so far

vars ==
  <<valuesInput, labelsInput, colorMode, primaryColor, secondaryColor,
    customColors, secondaryDisplay, customDisplay, canvas, parsed,
    errorMessage, download, configFile, EMACS_INTEGRATION, DEBUG, VERBOSE,
    emacsSectionDisplay, requests, tempScript, uncaught, lastAction, steps>>

inputVars == <<valuesInput, labelsInput>>
colorVars == <<colorMode, primaryColor, secondaryColor, customColors>>
controlVars == <<secondaryDisplay, customDisplay>>
configVars ==
  <<configFile, EMACS_INTEGRATION, DEBUG, VERBOSE, emacsSectionDisplay>>
emacsVars == <<requests, tempScript>>

NoDownload == [filename |-> "", picture |-> NoPicture]

\* displayError(message): the text of the error element; the element is shown
\* exactly when the text is not empty
displayError(message) == message

ErrorShown == errorMessage # ""

\* controls that keep the secondary colour visible in custom mode too
updateColorControlsBoth(mode) ==
  [secondary |-> IF mode \in {"gradient", "custom"} THEN "inline-block"
                 ELSE "none",
   custom |-> IF mode = "custom" THEN "inline-block" ELSE "none"]

\* updateColorControls: the display of the two optional groups for a mode
updateColorControls(mode) ==
  [secondary |-> IF mode = "gradient" THEN "inline-block" ELSE "none",
   custom |-> IF mode = "custom" THEN "inline-block" ELSE "none"]

\* what config.h holds for one key: no "#define KEY" line at all ("absent"),
\* a line that carries no digits after the key ("no number"), or the digit
\* string of the line
ConfigLines == {"absent", "no number", "0", "1", "10"}

\* config.h: file tells whether existsSync finds it ("present"), does not
\* ("missing") or whether existsSync or readFileSync throws ("unreadable")
ConfigFile(file, emacs, debug, verbose) ==
  [file |-> file, EMACS_INTEGRATION |-> emacs, DEBUG |-> debug,
   VERBOSE |-> verbose]

MissingConfig == ConfigFile("missing", "absent", "absent", "absent")
UnreadableConfig == ConfigFile("unreadable", "1", "1", "1")

ConfigFiles ==
  {MissingConfig, UnreadableConfig}
    \cup {ConfigFile("present", e, d, v) :
            e \in ConfigLines, d \in ConfigLines, v \in ConfigLines}

\* the configurations of the sessions
SessionConfigs ==
  {MissingConfig, UnreadableConfig,
   ConfigFile("present", "absent", "absent", "absent"),
   ConfigFile("present", "0", "1", "0"),
   ConfigFile("present", "1", "0", "1"),
   ConfigFile("present", "10", "no number", "1")}

\* a reading that takes every digit string but "0" for an enabled flag
ReadFlagNonZero(line) ==
  IF line \in {"absent", "no number"} THEN "undefined"
  ELSE IF line # "0" THEN "true" ELSE "false"

\* const m = content.match(/#define KEY\s+(\d+)/); if (m) window.KEY =
\* m[1] === '1': without a match the flag is not assigned and stays undefined
ReadFlag(line) ==
  IF line \in {"absent", "no number"} THEN "undefined"
  ELSE IF line = "1" THEN "true" ELSE "false"

\* loadConfiguration: the three flags of window afterwards
loadConfiguration(config) ==
  IF config.file \in {"missing", "unreadable"}
  THEN [EMACS_INTEGRATION |-> "true", DEBUG |-> "false", VERBOSE |-> "false"]
  ELSE [EMACS_INTEGRATION |-> ReadFlag(config.EMACS_INTEGRATION),
        DEBUG |-> ReadFlag(config.DEBUG),
        VERBOSE |-> ReadFlag(config.VERBOSE)]

\* the parse and the drawing of the current controls
CurrentParse == parseInputValues(valuesInput, labelsInput)

CurrentDrawing(series) ==
  drawGraph(series.dataValues, series.labels, colorMode, primaryColor,
            secondaryColor, customColors)

\* the state the DOMContentLoaded handler leaves, from index.html's defaults
InitWith(config, valueText, labelText) ==
  LET series == parseInputValues(valueText, labelText)
      controls == updateColorControls("single")
  IN  /\ valuesInput = valueText
      /\ labelsInput = labelText
      /\ colorMode = "single"
      /\ primaryColor = DefaultPrimary
      /\ secondaryColor = DefaultSecondary
      /\ customColors = <<>>
      /\ secondaryDisplay = controls.secondary
      /\ customDisplay = controls.custom
      /\ configFile = config
      /\ EMACS_INTEGRATION = loadConfiguration(config).EMACS_INTEGRATION
      /\ DEBUG = loadConfiguration(config).DEBUG
      /\ VERBOSE = loadConfiguration(config).VERBOSE
      /\ emacsSectionDisplay =
           IF loadConfiguration(config).EMACS_INTEGRATION = "true" THEN "block"
           ELSE "none"
      /\ errorMessage = displayError(series.message)
      /\ parsed = series
      /\ canvas = IF series.hasError THEN NoPicture
                  ELSE drawGraph(series.dataValues, series.labels, "single",
                                 DefaultPrimary, DefaultSecondary, <<>>).picture
      /\ download = NoDownload
      /\ requests = <<>>
      /\ tempScript = 0
      /\ uncaught = FALSE
      /\ lastAction = "load"
      /\ steps = 0

Init == \E config \in SessionConfigs : InitWith(config, DefaultValues, DefaultLabels)

----------------------------------------------------------------------------
(* The user edits the controls *)

TypeValues ==
  /\ \E t \in SessionValues : t # valuesInput /\ valuesInput' = t
  /\ lastAction' = "typeValues"
  /\ download' = NoDownload
  /\ UNCHANGED <<labelsInput, colorVars, controlVars, canvas, parsed,
                 errorMessage, configVars, emacsVars, uncaught>>

TypeLabels ==
  /\ \E t \in SessionLabels : t # labelsInput /\ labelsInput' = t
  /\ lastAction' = "typeLabels"
  /\ download' = NoDownload
  /\ UNCHANGED <<valuesInput, colorVars, controlVars, canvas, parsed,
                 errorMessage, configVars, emacsVars, uncaught>>

----------------------------------------------------------------------------
(* Handlers *)

\* plotButton click
PlotClick ==
  LET series == CurrentParse
  IN  /\ parsed' = series
      /\ errorMessage' = displayError(series.message)
      /\ canvas' = IF ~series.hasError THEN CurrentDrawing(series).picture
                   ELSE ClearedPicture
      /\ uncaught' = (uncaught \/ (~series.hasError /\ CurrentDrawing(series).throws))
      /\ lastAction' = "plot"
      /\ download' = NoDownload
      /\ UNCHANGED <<inputVars, colorVars, controlVars, configVars, emacsVars>>

\* a listener that parses and leaves the canvas as it was
RedrawSkipped(series, drawing) ==
  /\ parsed' = series
  /\ errorMessage' = displayError(series.message)
  /\ canvas' = canvas
  /\ UNCHANGED uncaught
  /\ download' = NoDownload
  /\ UNCHANGED <<inputVars, controlVars, configVars, emacsVars>>

\* the body the primaryColor, secondaryColor and customColors listeners share,
\* run after the control took its new value
RedrawAfterColorChange(series, drawing) ==
  /\ parsed' = series
  /\ errorMessage' = displayError(series.message)
  /\ canvas' = IF ~series.hasError THEN drawing.picture ELSE canvas
  /\ uncaught' = (uncaught \/ (~series.hasError /\ drawing.throws))
  /\ download' = NoDownload
  /\ UNCHANGED <<inputVars, controlVars, configVars, emacsVars>>

PrimaryColorChange ==
  \E c \in PrimaryColors :
    /\ c # primaryColor
    /\ primaryColor' = c
    /\ UNCHANGED <<colorMode, secondaryColor, customColors>>
    /\ RedrawAfterColorChange(CurrentParse,
         drawGraph(CurrentParse.dataValues, CurrentParse.labels, colorMode, c,
                   secondaryColor, customColors))
    /\ lastAction' = "primaryColor"

SecondaryColorChange ==
  \E c \in SecondaryColors :
    /\ c # secondaryColor
    /\ secondaryDisplay # "none"
    /\ secondaryColor' = c
    /\ UNCHANGED <<colorMode, primaryColor, customColors>>
    /\ RedrawAfterColorChange(CurrentParse,
         drawGraph(CurrentParse.dataValues, CurrentParse.labels, colorMode,
                   primaryColor, c, customColors))
    /\ lastAction' = "secondaryColor"

CustomColorsInput ==
  \E t \in CustomTexts :
    /\ t # customColors
    /\ customDisplay # "none"
    /\ customColors' = t
    /\ UNCHANGED <<colorMode, primaryColor, secondaryColor>>
    /\ RedrawAfterColorChange(CurrentParse,
         drawGraph(CurrentParse.dataValues, CurrentParse.labels, colorMode,
                   primaryColor, secondaryColor, t))
    /\ lastAction' = "customColors"

\* colorMode change: updateColorControls only
ColorModeChange ==
  \E m \in ColorModes :
    /\ m # colorMode
    /\ colorMode' = m
    /\ secondaryDisplay' = updateColorControls(m).secondary
    /\ customDisplay' = updateColorControls(m).custom
    /\ lastAction' = "colorMode"
    /\ download' = NoDownload
    /\ UNCHANGED <<inputVars, primaryColor, secondaryColor, customColors,
                   canvas, parsed, errorMessage, configVars, emacsVars,
                   uncaught>>

RasterFormats == {"png", "jpeg", "webp"}

RasterFilename(format) ==
  CASE format = "png" -> "bar-graph.png"
    [] format = "jpeg" -> "bar-graph.jpg"
    [] format = "webp" -> "bar-graph.webp"

\* exportCanvas(format): canvas.toDataURL saved under the format's file name
ExportCanvasClick ==
  \E format \in RasterFormats :
    /\ download' = [filename |-> RasterFilename(format), picture |-> canvas]
    /\ lastAction' = "exportCanvas"
    /\ UNCHANGED <<inputVars, colorVars, controlVars, canvas, parsed,
                   errorMessage, configVars, emacsVars, uncaught>>

\* exportSVG
ExportSVGClick ==
  LET series == CurrentParse
      doc == svgDocument(series.dataValues, series.labels, colorMode,
                         primaryColor, secondaryColor, customColors)
  IN  /\ parsed' = series
      /\ errorMessage' = displayError(series.message)
      /\ download' = IF Len(series.dataValues) = 0 \/ doc.throws THEN NoDownload
                     ELSE [filename |-> "bar-graph.svg", picture |-> doc.picture]
      /\ uncaught' = (uncaught \/ (Len(series.dataValues) > 0 /\ doc.throws))
      /\ lastAction' = "exportSVG"
      /\ UNCHANGED <<inputVars, colorVars, controlVars, canvas, configVars,
                     emacsVars>>

----------------------------------------------------------------------------
(* Open in Emacs *)

FixInputMessage == "Please fix input errors before opening in Emacs."
NoDataMessage == "No data to display. Please enter some values."
CheckingMessage == "Checking Emacs installation..."
DisabledMessage ==
  "Emacs not found: Emacs integration is disabled. Please install Emacs and ensure it's in your PATH."
NotWorkingMessage ==
  "Emacs not found: Emacs not found or not working properly. Please install Emacs and ensure it's in your PATH."
FailedToExecuteMessage ==
  "Emacs not found: Failed to execute emacs. Please install Emacs and ensure it's in your PATH."
TimedOutMessage ==
  "Emacs not found: Emacs check timed out. Please install Emacs and ensure it's in your PATH."
LaunchErrorMessage ==
  "Error launching Emacs. Make sure Emacs is installed and in your PATH."

SpawnThrewMessage ==
  "Emacs not found: spawn threw. Please install Emacs and ensure it's in your PATH."

\* what the close event of the check process carries
ExitCodes == {"0", "1"}
Outputs == {"GNU Emacs", ""}

\* what a call of spawn does: it returns a child process or it throws
SpawnResults == {"returns", "throws"}

\* the arguments the editor is spawned with
EditorArguments == <<"--no-splash", "--load", "temp-bar-graph.el">>

----------------------------------------------------------------------------
(* The script handed to Emacs, and bar-graph.el *)

bar_graph_height == 20

\* String(value), as dataValues.join(' ') writes a value into the script: the
\* digits of a whole number, a decimal fraction, or the name Infinity
NumberToString(v) ==
  [form |-> IF ~isFinite(v) THEN "name"
            ELSE IF v.d = 1 THEN "digits" ELSE "decimal",
   value |-> v]

\* the data line of the script: (setq bar-graph-data '(...))
emacsScript(req) ==
  [i \in 1..Len(req.dataValues) |-> NumberToString(req.dataValues[i])]

\* what the Lisp reader makes of a token of the quoted list: digits are an
\* integer, a decimal fraction is a float, a name is a symbol
LispRead(token) ==
  [type |-> CASE token.form = "digits" -> "integer"
              [] token.form = "decimal" -> "float"
              [] OTHER -> "symbol",
   value |-> token.value]

\* a division that is exact whatever the types of its arguments
LispQuotientExact(x, y) == [type |-> "float", value |-> Over(x.value, y.value)]

\* (/ x y) for x >= 0 and y > 0: the truncated quotient of two integers,
\* the floating-point quotient when an argument is a float
LispQuotient(x, y) ==
  IF x.type = "integer" /\ y.type = "integer"
  THEN [type |-> "integer", value |-> Num(x.value.n \div y.value.n)]
  ELSE [type |-> "float", value |-> Over(x.value, y.value)]

\* (* x n) for an integer n
LispTimes(x, n) == [type |-> x.type, value |-> Times(x.value, Num(n))]

\* (apply 'max values): the largest argument, returned as it is
LispMax(values) ==
  values[CHOOSE i \in 1..Len(values) :
           \A j \in 1..Len(values) : LessEq(values[j].value, values[i].value)]

\* (round value) for value >= 0: the nearest integer, a half to the even one
LispRound(x) ==
  LET n == x.value.n
      d == x.value.d
      floor == n \div d
  IN  IF 2 * (n % d) < d THEN floor
      ELSE IF 2 * (n % d) > d THEN floor + 1
      ELSE IF floor % 2 = 0 THEN floor ELSE floor + 1

\* bar-graph-normalize-data
bar_graph_normalize_data(values) ==
  LET max_value == LispMax(values)
  IN  IF Less(Num(0), max_value.value)
      THEN [i \in 1..Len(values) |->
              LispTimes(LispQuotient(values[i], max_value), bar_graph_height)]
      ELSE values

\* the editor has not loaded a script
NotRendered == [status |-> "none", data |-> <<>>, normalized |-> <<>>,
                bars |-> <<>>]

\* the script file was no longer at its path when the editor came to load it
NoScript == [status |-> "missing", data |-> <<>>, normalized |-> <<>>,
             bars |-> <<>>]

\* bar-graph-create-ascii on the data of a script: the normalized values and
\* the number of bar characters bar-graph-draw-bar inserts for each; a symbol
\* in the list makes max signal an error, and nothing is drawn
bar_graph_create_ascii(script) ==
  LET values == [i \in 1..Len(script) |-> LispRead(script[i])]
      normalized == bar_graph_normalize_data(values)
  IN  IF \E i \in 1..Len(values) : values[i].type = "symbol"
      THEN [status |-> "error", data |-> values, normalized |-> <<>>,
            bars |-> <<>>]
      ELSE [status |-> "drawn", data |-> values, normalized |-> normalized,
            bars |-> [i \in 1..Len(values) |-> LispRound(normalized[i])]]

\* a request whose availability check was spawned
NewRequest(series) ==
  [dataValues |-> series.dataValues, labels |-> series.labels,
   settled |-> "pending",   \* the promise of checkEmacsInstallation
   by |-> "none",           \* the event that settled it: close, error, timeout
   code |-> "none",         \* the exit code of the close event that settled it
   output |-> "none",       \* the standard output at that close event
   closed |-> FALSE,        \* the close event was delivered
   errored |-> FALSE,       \* the error event was delivered
   timer |-> "armed",       \* the 5 s timeout of the check
   killed |-> FALSE,        \* emacs.kill() was called
   trace |-> <<"check">>,   \* the steps openInEmacs took for it, in order
   arguments |-> <<>>,      \* the arguments the editor was spawned with
   editor |-> "none",       \* the editor process: none, spawned, failed
   cleanup |-> "none",      \* the 5 s timer that deletes the script
   rendition |-> NotRendered]  \* what the editor drew from the script

\* openInEmacs up to its await; a check that rejects before it spawned a
\* process (integration disabled, spawn throws) is caught in the same turn.
\* The source sets no limit to the requests in flight; limit bounds them.
openInEmacsUpTo(limit) ==
  LET series == CurrentParse
  IN  /\ parsed' = series
      /\ lastAction' = "openInEmacs"
      /\ download' = NoDownload
      /\ IF series.hasError
         THEN /\ errorMessage' = displayError(FixInputMessage)
              /\ UNCHANGED requests
         ELSE IF Len(series.dataValues) = 0
         THEN /\ errorMessage' = displayError(NoDataMessage)
              /\ UNCHANGED requests
         ELSE IF EMACS_INTEGRATION = "false"
         THEN /\ errorMessage' = displayError(DisabledMessage)
              /\ UNCHANGED requests
         ELSE \E spawn \in SpawnResults :
                IF spawn = "throws"
                THEN /\ errorMessage' = displayError(SpawnThrewMessage)
                     /\ UNCHANGED requests
                ELSE /\ Len(requests) < limit
                     /\ errorMessage' = displayError(CheckingMessage)
                     /\ requests' = Append(requests, NewRequest(series))
      /\ UNCHANGED <<inputVars, colorVars, controlVars, canvas, configVars,
                     tempScript, uncaught>>

openInEmacs == openInEmacsUpTo(MaxRequests)

\* the click on the button of the Emacs section
OpenInEmacsClick == emacsSectionDisplay = "block" /\ openInEmacs

\* a launch that spawns the editor before the script is on disk
LaunchEditorSpawnFirst(k, req, writeOk, spawn) ==
  /\ tempScript' = IF writeOk THEN k ELSE tempScript
  /\ requests' = [requests EXCEPT ![k] =
                    [req EXCEPT !.trace = @ \o <<"spawn", "write", "schedule">>,
                                !.arguments = EditorArguments,
                                !.editor = "spawned",
                                !.cleanup = "armed"]]
  /\ errorMessage' = displayError("")

\* openInEmacs after its await resolved: the script is written (writeOk tells
\* whether writeFileSync returned), the editor spawned and the cleanup armed;
\* an exception of writeFileSync or of spawn ends in the catch block
LaunchEditor(k, req, writeOk, spawn) ==
  IF ~writeOk
  THEN /\ UNCHANGED tempScript
       /\ requests' = [requests EXCEPT ![k] = req]
       /\ errorMessage' = displayError(LaunchErrorMessage)
  ELSE IF spawn = "throws"
  THEN /\ tempScript' = k
       /\ requests' = [requests EXCEPT ![k] =
                         [req EXCEPT !.trace = @ \o <<"write">>]]
       /\ errorMessage' = displayError(LaunchErrorMessage)
  ELSE /\ tempScript' = k
       /\ requests' = [requests EXCEPT ![k] =
                         [req EXCEPT !.trace = @ \o <<"write", "spawn", "schedule">>,
                                     !.arguments = EditorArguments,
                                     !.editor = "spawned",
                                     !.cleanup = "armed"]]
       /\ errorMessage' = displayError("")

\* a launch that goes on to the script whatever the check said
CheckFailedThenLaunch(k, req, message) ==
  /\ tempScript' = k
  /\ requests' = [requests EXCEPT ![k] =
                    [req EXCEPT !.trace = @ \o <<"write", "spawn", "schedule">>,
                                !.arguments = EditorArguments,
                                !.editor = "spawned",
                                !.cleanup = "armed"]]
  /\ errorMessage' = displayError("")

\* openInEmacs after its await rejected: the message, and return
CheckFailed(k, req, message) ==
  /\ requests' = [requests EXCEPT ![k] = req]
  /\ errorMessage' = displayError(message)
  /\ UNCHANGED tempScript

\* a promise that can be settled again and again
AlreadySettledNever(req) == FALSE

\* a promise settles once: resolve and reject of a settled promise do nothing,
\* and the code after the await runs once
AlreadySettled(req) == req.settled # "pending"

\* a promise on which resolve and reject have no effect
SettleNothing(req, settled, by) == req

\* reject(...) and resolve(...) of the promise, which settles once
Settle(req, settled, by) == [req EXCEPT !.settled = settled, !.by = by]

\* what every callback leaves alone; the file a handler saved is forgotten
EmacsFrame ==
  /\ lastAction' = "callback"
  /\ download' = NoDownload
  /\ UNCHANGED <<inputVars, colorVars, controlVars, canvas, parsed, configVars>>

\* a close handler that takes exit code 0 for success whatever was printed
CloseSucceedsOnCode(code, output) == code = "0"

\* code === 0 && output.includes('GNU Emacs')
CloseSucceeds(code, output) == code = "0" /\ output = "GNU Emacs"

\* emacs.on('close'), and the rest of openInEmacs when it settles the promise
CheckClose ==
  \E k \in 1..Len(requests), code \in ExitCodes, output \in Outputs,
     writeOk \in BOOLEAN, spawn \in SpawnResults :
    LET req == [requests[k] EXCEPT !.closed = TRUE]
        seen == [req EXCEPT !.code = code, !.output = output]
    IN  /\ ~requests[k].closed
        /\ EmacsFrame
        /\ UNCHANGED uncaught
        /\ IF AlreadySettled(req)
           THEN /\ requests' = [requests EXCEPT ![k] = req]
                /\ UNCHANGED <<errorMessage, tempScript>>
           ELSE IF CloseSucceeds(code, output)
           THEN LaunchEditor(k, Settle(seen, "resolved", "close"), writeOk, spawn)
           ELSE CheckFailed(k, Settle(seen, "rejected", "close"), NotWorkingMessage)

\* emacs.on('error'), and the catch block of openInEmacs when it settles
CheckError ==
  \E k \in 1..Len(requests) :
    LET req == [requests[k] EXCEPT !.errored = TRUE]
    IN  /\ ~requests[k].closed
        /\ ~requests[k].errored
        /\ EmacsFrame
        /\ UNCHANGED uncaught
        /\ IF AlreadySettled(req)
           THEN /\ requests' = [requests EXCEPT ![k] = req]
                /\ UNCHANGED <<errorMessage, tempScript>>
           ELSE CheckFailed(k, Settle(req, "rejected", "error"),
                            FailedToExecuteMessage)

\* the timeout callback of checkEmacsInstallation: emacs.kill() and reject,
\* and the catch block of openInEmacs when it settles the promise
CheckTimeout ==
  \E k \in 1..Len(requests) :
    LET req == [requests[k] EXCEPT !.timer = "fired", !.killed = TRUE]
    IN  /\ requests[k].timer = "armed"
        /\ EmacsFrame
        /\ UNCHANGED uncaught
        /\ IF AlreadySettled(req)
           THEN /\ requests' = [requests EXCEPT ![k] = req]
                /\ UNCHANGED <<errorMessage, tempScript>>
           ELSE CheckFailed(k, Settle(req, "rejected", "timeout"),
                            TimedOutMessage)

\* the error event of the editor process (the spawn failed): the child has no
\* error listener, so the event is thrown as an uncaught exception
EditorError ==
  \E k \in 1..Len(requests) :
    /\ requests[k].editor = "spawned"
    /\ requests' = [requests EXCEPT ![k].editor = "failed"]
    /\ uncaught' = TRUE
    /\ EmacsFrame
    /\ UNCHANGED <<errorMessage, tempScript>>

\* the editor process loads the file at the shared path, which holds the
\* script of the request that wrote it last, and draws the graph
EditorLoadsScript ==
  \E k \in 1..Len(requests) :
    /\ requests[k].editor = "spawned"
    /\ requests[k].rendition.status = "none"
    /\ requests' = [requests EXCEPT ![k].rendition =
                      IF tempScript = 0 THEN NoScript
                      ELSE bar_graph_create_ascii(emacsScript(requests[tempScript]))]
    /\ UNCHANGED <<inputVars, colorVars, controlVars, canvas, parsed,
                   errorMessage, download, configVars, tempScript, uncaught,
                   lastAction>>

\* the cleanup callback: fs.unlinkSync(tempScript); when it throws (the file
\* is gone, or cannot be removed) the failure is logged
CleanupTempScript ==
  \E k \in 1..Len(requests), unlinkOk \in BOOLEAN :
    /\ requests[k].cleanup = "armed"
    /\ IF tempScript # 0 /\ unlinkOk
       THEN /\ tempScript' = 0
            /\ requests' = [requests EXCEPT ![k].cleanup = "done"]
       ELSE /\ UNCHANGED tempScript
            /\ requests' = [requests EXCEPT ![k].cleanup = "logged"]
    /\ EmacsFrame
    /\ UNCHANGED <<errorMessage, uncaught>>

----------------------------------------------------------------------------
(* Specifications *)

\* a handler run of a session (a user action or a callback), counted against
\* the session's budget
CountStep == steps < MaxSteps /\ steps' = steps + 1

SessionTypeValues == CountStep /\ TypeValues
SessionTypeLabels == CountStep /\ TypeLabels
SessionPlotClick == CountStep /\ PlotClick
SessionPrimaryColorChange == CountStep /\ PrimaryColorChange
SessionSecondaryColorChange == CountStep /\ SecondaryColorChange
SessionCustomColorsInput == CountStep /\ CustomColorsInput
SessionColorModeChange == CountStep /\ ColorModeChange
SessionExportCanvasClick == CountStep /\ ExportCanvasClick
SessionExportSVGClick == CountStep /\ ExportSVGClick
SessionOpenInEmacsClick == CountStep /\ OpenInEmacsClick

UserAction ==
  \/ SessionTypeValues
  \/ SessionTypeLabels
  \/ SessionPlotClick
  \/ SessionPrimaryColorChange
  \/ SessionSecondaryColorChange
  \/ SessionCustomColorsInput
  \/ SessionColorModeChange
  \/ SessionExportCanvasClick
  \/ SessionExportSVGClick
  \/ SessionOpenInEmacsClick

SessionCheckClose == CountStep /\ CheckClose
SessionCheckError == CountStep /\ CheckError
SessionCheckTimeout == CountStep /\ CheckTimeout
SessionEditorError == CountStep /\ EditorError
SessionCleanupTempScript == CountStep /\ CleanupTempScript

Callback ==
  \/ SessionCheckClose
  \/ SessionCheckError
  \/ SessionCheckTimeout
  \/ SessionEditorError
  \/ SessionCleanupTempScript

Next == UserAction \/ Callback

\* a session of the application
Spec == Init /\ [][Next]_vars

\* the Open-in-Emacs requests of a session left to run to their end: the
\* clicks are bounded by MaxRequests and every callback runs when its event
\* comes.  A timer that was set fires after its delay, whatever else the
\* page does, so the timeout callback is taken under weak fairness; the
\* events of the check process and of the editor carry no such promise.
FairOpenInEmacsClick == OpenInEmacsClick /\ UNCHANGED steps
FairCheckClose == CheckClose /\ UNCHANGED steps
FairCheckError == CheckError /\ UNCHANGED steps
FairCheckTimeout == CheckTimeout /\ UNCHANGED steps
FairEditorError == EditorError /\ UNCHANGED steps
FairCleanupTempScript == CleanupTempScript /\ UNCHANGED steps

NextFair ==
  \/ FairOpenInEmacsClick
  \/ FairCheckClose
  \/ FairCheckError
  \/ FairCheckTimeout
  \/ FairEditorError
  \/ FairCleanupTempScript

SpecFair ==
  Init /\ [][NextFair]_vars /\ WF_vars(FairCheckTimeout)
       /\ WF_vars(FairCleanupTempScript)

\* a session in which Open-in-Emacs requests overlap: up to MaxOverlap
\* requests in flight, the labels retyped and plotted in between, and every
\* callback, within MaxEvents handler runs
CountEvent == steps < MaxEvents /\ steps' = steps + 1

OverlapOpenInEmacsClick ==
  CountEvent /\ emacsSectionDisplay = "block" /\ openInEmacsUpTo(MaxOverlap)
OverlapTypeLabels == CountEvent /\ TypeLabels
OverlapPlotClick == CountEvent /\ PlotClick
OverlapCheckClose == CountEvent /\ CheckClose
OverlapCheckError == CountEvent /\ CheckError
OverlapCheckTimeout == CountEvent /\ CheckTimeout
OverlapEditorError == CountEvent /\ EditorError
OverlapCleanupTempScript == CountEvent /\ CleanupTempScript

NextOverlap ==
  \/ OverlapOpenInEmacsClick
  \/ OverlapTypeLabels
  \/ OverlapPlotClick
  \/ OverlapCheckClose
  \/ OverlapCheckError
  \/ OverlapCheckTimeout
  \/ OverlapEditorError
  \/ OverlapCleanupTempScript

SpecOverlap == Init /\ [][NextOverlap]_vars

\* the pipeline on every input text: the page as loaded, with the two texts
\* the user typed
InitPipeline ==
  \E valueText \in ValueTexts, labelText \in LabelTexts :
    /\ valuesInput = valueText
    /\ labelsInput = labelText
    /\ colorMode = "single"
    /\ primaryColor = DefaultPrimary
    /\ secondaryColor = DefaultSecondary
    /\ customColors = <<>>
    /\ secondaryDisplay = "none"
    /\ customDisplay = "none"
    /\ configFile = MissingConfig
    /\ EMACS_INTEGRATION = "true"
    /\ DEBUG = "false"
    /\ VERBOSE = "false"
    /\ emacsSectionDisplay = "block"
    /\ errorMessage = ""
    /\ parsed = parseInputValues(DefaultValues, DefaultLabels)
    /\ canvas = drawGraph(parseInputValues(DefaultValues, DefaultLabels).dataValues,
                          parseInputValues(DefaultValues, DefaultLabels).labels,
                          "single", DefaultPrimary, DefaultSecondary, <<>>).picture
    /\ download = NoDownload
    /\ requests = <<>>
    /\ tempScript = 0
    /\ uncaught = FALSE
    /\ lastAction = "typeValues"
    /\ steps = 0

\* one handler run on the typed texts
PipelinePlotClick == PlotClick /\ UNCHANGED steps
PipelineExportSVGClick == ExportSVGClick /\ UNCHANGED steps

NextPipeline == PipelinePlotClick \/ PipelineExportSVGClick

SpecPipeline == InitPipeline /\ [][NextPipeline]_vars

\* the three handlers that test for an empty series, each run once on every
\* pair of input texts: what a handler finds depends on the texts alone
FirstRun == steps = 0 /\ steps' = 1

ParsePlotClick == FirstRun /\ PlotClick
ParseExportSVGClick == FirstRun /\ ExportSVGClick
ParseOpenInEmacsClick == FirstRun /\ OpenInEmacsClick

NextParse == ParsePlotClick \/ ParseExportSVGClick \/ ParseOpenInEmacsClick

SpecParse == InitPipeline /\ [][NextParse]_vars

\* the hand-over to Emacs on every input text: the request, its check, the
\* editor loading the script, and the cleanup, within the budget of a session
RenditionOpenInEmacsClick == CountStep /\ OpenInEmacsClick
RenditionCheckClose == CountStep /\ CheckClose
RenditionEditorLoadsScript == CountStep /\ EditorLoadsScript
RenditionCleanupTempScript == CountStep /\ CleanupTempScript

NextRendition ==
  \/ RenditionOpenInEmacsClick
  \/ RenditionCheckClose
  \/ RenditionEditorLoadsScript
  \/ RenditionCleanupTempScript

SpecRendition == InitPipeline /\ [][NextRendition]_vars

\* the page as loaded under every content of config.h, and the Open-in-Emacs
\* handler run on it with its callbacks, within the budget of a session; the
\* listener is registered whatever the configuration says
InitConfig ==
  \E config \in ConfigFiles : InitWith(config, DefaultValues, DefaultLabels)

ConfigOpenInEmacs == CountStep /\ openInEmacs
ConfigCheckClose == CountStep /\ CheckClose
ConfigCheckError == CountStep /\ CheckError
ConfigCheckTimeout == CountStep /\ CheckTimeout
ConfigEditorError == CountStep /\ EditorError
ConfigCleanupTempScript == CountStep /\ CleanupTempScript

NextConfig ==
  \/ ConfigOpenInEmacs
  \/ ConfigCheckClose
  \/ ConfigCheckError
  \/ ConfigCheckTimeout
  \/ ConfigEditorError
  \/ ConfigCleanupTempScript

SpecConfig == InitConfig /\ [][NextConfig]_vars

\* the colour assignment under every colour setting: the page as loaded, with
\* the colour controls set and texts of 1 to MaxColors entries typed
InitColors ==
  \E mode \in ColorModes \cup {UnknownMode}, primary \in PickerColors,
     secondary \in PickerColors, custom \in PaletteTexts, n \in ColorCounts :
    /\ valuesInput = Repeated(<<"1">>, n)
    /\ labelsInput = Repeated(<<"A">>, n)
    /\ colorMode = mode
    /\ primaryColor = primary
    /\ secondaryColor = secondary
    /\ customColors = custom
    /\ secondaryDisplay = updateColorControls(mode).secondary
    /\ customDisplay = updateColorControls(mode).custom
    /\ configFile = MissingConfig
    /\ EMACS_INTEGRATION = "true"
    /\ DEBUG = "false"
    /\ VERBOSE = "false"
    /\ emacsSectionDisplay = "block"
    /\ errorMessage = ""
    /\ parsed = parseInputValues(DefaultValues, DefaultLabels)
    /\ canvas = drawGraph(parseInputValues(DefaultValues, DefaultLabels).dataValues,
                          parseInputValues(DefaultValues, DefaultLabels).labels,
                          "single", DefaultPrimary, DefaultSecondary, <<>>).picture
    /\ download = NoDownload
    /\ requests = <<>>
    /\ tempScript = 0
    /\ uncaught = FALSE
    /\ lastAction = "typeValues"
    /\ steps = 0

ColorsPlotClick == PlotClick /\ UNCHANGED steps
ColorsExportSVGClick == ExportSVGClick /\ UNCHANGED steps

NextColors == ColorsPlotClick \/ ColorsExportSVGClick

SpecColors == InitColors /\ [][NextColors]_vars

----------------------------------------------------------------------------
(* Properties of the input parser *)

\* the handlers that call parseInputValues; after one of them ran, parsed is
\* the parse of the texts the two inputs hold
ParsingActions ==
  {"load", "plot", "primaryColor", "secondaryColor", "customColors",
   "exportSVG", "openInEmacs"}

\* the reference value list of a token list: tokens in order, a token that is
\* no number dropped, a negative number replaced by 0
RECURSIVE RefValues(_, _, _)
RefValues(tokens, lo, hi) ==
  IF lo > hi THEN <<>>
  ELSE IF lo = hi
  THEN LET v == parseFloat(trim(tokens[lo]))
       IN  IF isNaN(v) THEN <<>>
           ELSE IF v.n < 0 THEN <<Num(0)>>
           ELSE <<v>>
  ELSE RefValues(tokens, lo, (lo + hi) \div 2)
         \o RefValues(tokens, (lo + hi) \div 2 + 1, hi)

RefValueList == RefValues(split(valuesInput), 1, Len(split(valuesInput)))
RefLabelCount == Len(split(labelsInput))

\* C1: whenever parseInputValues returns hasError = false, the values and the
\* labels it returns have the same length and no value is NaN or negative.
SeriesWellFormed ==
  (lastAction \in ParsingActions /\ ~parsed.hasError) =>
    /\ Len(parsed.dataValues) = Len(parsed.labels)
    /\ \A i \in 1..Len(parsed.dataValues) :
         /\ ~isNaN(parsed.dataValues[i])
         /\ ~Less(parsed.dataValues[i], Num(0))

\* a plotted series of three entries whose negative token was clamped
SeriesWellFormedWitness ==
  /\ lastAction = "plot"
  /\ valuesInput = ClampExample
  /\ ~parsed.hasError
  /\ Len(parsed.dataValues) = 3
  /\ parsed.dataValues[2] = Num(0)

\* C2: when the number of parsed values differs from the number of labels,
\* parseInputValues reports an error and returns no value and no label.
MismatchYieldsEmptyError ==
  (lastAction \in ParsingActions /\ Len(RefValueList) # RefLabelCount) =>
    /\ parsed.hasError
    /\ parsed.dataValues = <<>>
    /\ parsed.labels = <<>>
    /\ ErrorShown

\* a parse of at least one value and of more labels than values
MismatchYieldsEmptyErrorWitness ==
  /\ lastAction = "plot"
  /\ Len(RefValueList) >= 1
  /\ RefLabelCount > Len(RefValueList)
  /\ parsed.hasError

\* C3: the value list parseInputValues produces is the reference list (tokens
\* in order, unparseable ones dropped without an error, negative ones replaced
\* by 0), the length comparison uses the count after dropping, and "10,abc,20"
\* with two labels gives the values 10 and 20.
ValuesMatchReference ==
  lastAction \in ParsingActions =>
    /\ parsed.hasError <=> Len(RefValueList) # RefLabelCount
    /\ ~parsed.hasError => parsed.dataValues = RefValueList
    /\ (valuesInput = DropExample /\ labelsInput = TwoLabels) =>
         /\ ~parsed.hasError
         /\ parsed.dataValues = <<Num(10), Num(20)>>

\* "10,abc,20" was parsed with two labels
ValuesMatchReferenceWitness ==
  /\ lastAction = "plot"
  /\ valuesInput = DropExample
  /\ labelsInput = TwoLabels
  /\ Len(split(valuesInput)) = 3
  /\ Len(parsed.dataValues) = 2

\* C4: a token that parses to Infinity is removed before the length
\* comparison, so no series holds an infinite value.
InfinityNeverInSeries ==
  (lastAction \in ParsingActions /\ ~parsed.hasError) =>
    \A i \in 1..Len(parsed.dataValues) : isFinite(parsed.dataValues[i])

\* C5: two empty input texts parse to a valid result without entries
\* (hasError = false), and drawing it draws no bar.
EmptyInputIsValid ==
  (lastAction \in ParsingActions /\ valuesInput = <<>> /\ labelsInput = <<>>) =>
    /\ ~parsed.hasError
    /\ parsed.dataValues = <<>>
    /\ parsed.labels = <<>>
    /\ lastAction = "plot" => canvas = ClearedPicture

----------------------------------------------------------------------------
(* Properties of the geometry *)

SvgExported == lastAction = "exportSVG" /\ download.filename = "bar-graph.svg"
Plotted == lastAction = "plot" /\ ~parsed.hasError

AllZero(values) == \A i \in 1..Len(values) : values[i] = Num(0)

\* the divisor of the scale: the largest value when it is positive, else 1
RefDivisor(values) ==
  LET largest == CHOOSE i \in 1..Len(values) :
                   \A j \in 1..Len(values) : LessEq(values[j], values[i])
  IN  IF Less(Num(0), values[largest]) THEN values[largest] ELSE Num(1)

\* value * (height - topPad - bottomPad) / divisor
RefHeight(value, values) ==
  Times(value, Over(Num(CanvasHeight - topPadding - bottomPadding),
                    RefDivisor(values)))

BarsScaled(bars, values) ==
  /\ Len(bars) = Len(values)
  /\ \A i \in 1..Len(values) :
       /\ bars[i].h = RefHeight(values[i], values)
       /\ AllZero(values) => bars[i].h = Num(0)

\* C8: bar height = value * scale with scale = (height - topPad - bottomPad)
\* / (maxValue or 1), in the canvas renderer and in the SVG exporter; a series
\* of zeros is divided by 1 and every bar of it has height 0.
HeightsScaled ==
  /\ Plotted => BarsScaled(canvas.bars, parsed.dataValues)
  /\ SvgExported => BarsScaled(download.picture.bars, parsed.dataValues)

\* a series of two zeros was plotted and then exported as SVG
HeightsScaledWitness ==
  /\ SvgExported
  /\ Len(parsed.dataValues) = 2
  /\ AllZero(parsed.dataValues)
  /\ Len(canvas.bars) = 2
  /\ canvas.bars[2].h = Num(0)
  /\ download.picture.bars[2].h = Num(0)

\* C9: the bar width of a series that is not empty is strictly positive, in
\* the canvas renderer and in the SVG exporter.
BarWidthPositive ==
  /\ Plotted =>
       \A i \in 1..Len(canvas.bars) : Less(Num(0), canvas.bars[i].w)
  /\ SvgExported =>
       \A i \in 1..Len(download.picture.bars) :
         Less(Num(0), download.picture.bars[i].w)

SameGeometry(a, b) ==
  /\ Len(a) = Len(b)
  /\ \A i \in 1..Len(a) :
       a[i].w = b[i].w /\ a[i].x = b[i].x /\ a[i].h = b[i].h /\ a[i].y = b[i].y

\* C10: on a 760 by 400 canvas the canvas renderer and the SVG exporter give
\* the bars of a series the same width, x-offset, height and top y.
RenderersAgree ==
  SvgExported =>
    SameGeometry(download.picture.bars, CurrentDrawing(parsed).picture.bars)

----------------------------------------------------------------------------
(* Properties of the handlers *)

RedrawingActions == {"plot", "primaryColor", "secondaryColor", "customColors"}

\* C6: every user action that meets a count mismatch (Plot, a colour change,
\* custom-colour input, SVG export, Open in Emacs) leaves the canvas cleared
\* and a message displayed.
ValidationErrorClearsSurface ==
  (lastAction \in RedrawingActions \cup {"exportSVG", "openInEmacs"}
     /\ parsed.hasError) =>
    canvas = ClearedPicture /\ ErrorShown

\* C7: after every user action, what is drawn or exported is the pipeline's
\* result for the input texts and colour settings of that action.
EveryActionRerunsPipeline ==
  ~CurrentParse.hasError =>
    /\ lastAction \in RedrawingActions \cup {"colorMode"} =>
         canvas = CurrentDrawing(CurrentParse).picture
    /\ lastAction = "exportCanvas" =>
         download.picture = CurrentDrawing(CurrentParse).picture
    /\ lastAction = "exportSVG" =>
         download.picture =
           svgDocument(CurrentParse.dataValues, CurrentParse.labels, colorMode,
                       primaryColor, secondaryColor, customColors).picture

\* C7, amended: Plot, a colour change, custom-colour input, SVG export and
\* Open in Emacs parse the input texts of that action, and what they draw,
\* export or hand to the check is computed from that parse and the colour
\* settings of that action; a raster export saves the canvas as it is.
ParsingActionsRerunPipeline ==
  /\ lastAction \in RedrawingActions \cup {"exportSVG", "openInEmacs"} =>
       parsed = CurrentParse
  /\ (lastAction \in RedrawingActions /\ ~CurrentParse.hasError) =>
       canvas = CurrentDrawing(CurrentParse).picture
  /\ (lastAction = "exportSVG" /\ ~CurrentParse.hasError) =>
       /\ download.filename = "bar-graph.svg"
       /\ download.picture =
            svgDocument(CurrentParse.dataValues, CurrentParse.labels, colorMode,
                        primaryColor, secondaryColor, customColors).picture
  /\ (lastAction = "openInEmacs" /\ errorMessage = CheckingMessage) =>
       /\ requests[Len(requests)].dataValues = CurrentParse.dataValues
       /\ requests[Len(requests)].labels = CurrentParse.labels
  /\ lastAction = "exportCanvas" => download.picture = canvas

\* new texts were typed and a colour change, not a Plot click, drew them
ParsingActionsRerunPipelineWitness ==
  /\ lastAction = "primaryColor"
  /\ valuesInput # DefaultValues
  /\ ~parsed.hasError
  /\ Len(canvas.bars) = 2
  /\ canvas.bars[1].fill = TextColor(primaryColor)

----------------------------------------------------------------------------
(* Properties of the colour assignment *)

\* the colours of the bars of a picture, in order
Fills(picture) == [i \in 1..Len(picture.bars) |-> picture.bars[i].fill]

\* a handler drew or exported bars, and the colours it gave them
Painting == Plotted \/ SvgExported
Painted == IF Plotted THEN Fills(canvas) ELSE Fills(download.picture)

\* generateColors(count) under the colour controls as they are
CurrentColors(count) ==
  generateColors(count, colorMode, primaryColor, secondaryColor, customColors)

FlatModes == {"single", UnknownMode}

\* C11: generateColors(count) returns exactly count colours in every mode and
\* for every count >= 0, and in single mode and in an unknown mode every entry
\* is the primary colour unchanged; the bars drawn and exported carry them.
ColorCountExact ==
  /\ \A count \in 0..MaxColors :
       /\ ~CurrentColors(count).throws
       /\ Len(CurrentColors(count).colors) = count
       /\ colorMode \in FlatModes =>
            \A i \in 1..count :
              CurrentColors(count).colors[i] = TextColor(primaryColor)
  /\ Painting =>
       /\ Len(Painted) = Len(parsed.dataValues)
       /\ colorMode \in FlatModes =>
            \A i \in 1..Len(Painted) : Painted[i] = TextColor(primaryColor)

\* three bars were drawn in a mode the switch does not name, all in red
ColorCountExactWitness ==
  /\ Plotted
  /\ colorMode = UnknownMode
  /\ primaryColor = Red
  /\ Len(canvas.bars) = 3
  /\ \A i \in 1..3 : canvas.bars[i].fill = TextColor(Red)

\* round(a + (b - a) * i / (count - 1)) in integers, halves upwards
RefChannel(a, b, i, count) ==
  IF count = 1 THEN a
  ELSE (2 * (a * (count - 1) + (b - a) * i) + (count - 1)) \div (2 * (count - 1))

RefRgb(c) == RgbColor(Num(c.r), Num(c.g), Num(c.b))

\* C12: in gradient mode with two 6-digit hex colours, channel c of entry i
\* of count is round(c1 + (c2 - c1) * i / (count - 1)), and c1 for count = 1;
\* the first entry is the primary colour, the last entry of a longer gradient
\* is the secondary colour.  The arithmetic is exact, not floating point.
GradientInterpolates ==
  (Painting /\ colorMode = "gradient") =>
    LET n == Len(Painted)
        c1 == hexToRgb(primaryColor)
        c2 == hexToRgb(secondaryColor)
    IN  /\ n = Len(parsed.dataValues)
        /\ \A i \in 1..n :
             Painted[i] =
               RgbColor(Num(RefChannel(c1.r, c2.r, i - 1, n)),
                        Num(RefChannel(c1.g, c2.g, i - 1, n)),
                        Num(RefChannel(c1.b, c2.b, i - 1, n)))
        /\ Painted[1] = RefRgb(c1)
        /\ n > 1 => Painted[n] = RefRgb(c2)

\* red to blue over three bars: the middle bar is round(127.5) = 128
GradientInterpolatesWitness ==
  /\ Plotted
  /\ colorMode = "gradient"
  /\ primaryColor = Red
  /\ secondaryColor = Blue
  /\ Len(canvas.bars) = 3
  /\ canvas.bars[1].fill = RgbColor(Num(255), Num(0), Num(0))
  /\ canvas.bars[2].fill = RgbColor(Num(128), Num(0), Num(128))
  /\ canvas.bars[3].fill = RgbColor(Num(0), Num(0), Num(255))

\* C13: in rainbow mode entry i has hue i * 360 / count, saturation 70% and
\* lightness 50%; the hues start at 0, increase strictly, are pairwise
\* distinct and lie in [0, 360).
RainbowHues ==
  (Painting /\ colorMode = "rainbow") =>
    LET n == Len(Painted)
        hue(i) == Painted[i].r
    IN  /\ n = Len(parsed.dataValues)
        /\ \A i \in 1..n :
             /\ Painted[i].kind = "hsl"
             /\ hue(i) = Rat((i - 1) * 360, n)
             /\ Painted[i].g = Num(70)
             /\ Painted[i].b = Num(50)
             /\ LessEq(Num(0), hue(i))
             /\ Less(hue(i), Num(360))
        /\ hue(1) = Num(0)
        /\ \A i \in 1..(n - 1) : Less(hue(i), hue(i + 1))
        /\ \A i \in 1..n : \A j \in 1..n : i # j => hue(i) # hue(j)

\* four bars exported with the hues 0, 90, 180 and 270
RainbowHuesWitness ==
  /\ SvgExported
  /\ colorMode = "rainbow"
  /\ Len(download.picture.bars) = 4
  /\ \A i \in 1..4 : download.picture.bars[i].fill = HslColor(Num((i - 1) * 90))

\* the palette of the custom colour text: its entries between commas, trimmed
Palette == ParsedLabels(customColors)

\* C14: in custom mode entry i is palette[i] when the palette has at least
\* count entries and palette[i mod length] otherwise; a short palette repeats
\* in order, and no error and no undefined colour comes of it.
CustomPaletteCycles ==
  (Painting /\ colorMode = "custom") =>
    LET n == Len(Painted)
    IN  /\ n = Len(parsed.dataValues)
        /\ Len(Palette) >= 1
        /\ ~uncaught
        /\ Len(Palette) >= n =>
             \A i \in 1..n : Painted[i] = TextColor(Palette[i])
        /\ \A i \in 1..n :
             Painted[i] = TextColor(Palette[((i - 1) % Len(Palette)) + 1])

\* a palette of two colours painted on five bars: red, green, red, green, red
CustomPaletteCyclesWitness ==
  /\ Plotted
  /\ colorMode = "custom"
  /\ Palette = <<Red, Green>>
  /\ Fills(canvas) =
       <<TextColor(Red), TextColor(Green), TextColor(Red), TextColor(Green),
         TextColor(Red)>>

----------------------------------------------------------------------------
(* Properties of the configuration *)

Keys == {"EMACS_INTEGRATION", "DEBUG", "VERBOSE"}

\* the three flags of window
window ==
  [EMACS_INTEGRATION |-> EMACS_INTEGRATION, DEBUG |-> DEBUG,
   VERBOSE |-> VERBOSE]

\* config.h did not supply the key: there is no file to read, or no line
NotSupplied(key) == configFile.file # "present" \/ configFile[key] = "absent"

\* a flag that logs nothing and shows nothing: false, or never assigned
Off(flag) == flag # "true"

\* C15: after loading, a flag that config.h did not supply (file missing,
\* unreadable, or without the key) has its documented default:
\* EMACS_INTEGRATION is true, DEBUG and VERBOSE are off.
DefaultsWhenNotSupplied ==
  /\ NotSupplied("EMACS_INTEGRATION") => EMACS_INTEGRATION = "true"
  /\ NotSupplied("DEBUG") => Off(DEBUG)
  /\ NotSupplied("VERBOSE") => Off(VERBOSE)

DigitLines == ConfigLines \ {"absent", "no number"}

----------------------------------------------------------------------------
(* Properties of the Open-in-Emacs requests *)

Requests == {requests[k] : k \in 1..Len(requests)}

\* C17: a check succeeds only through a close event with exit code 0 and
\* 'GNU Emacs' in the output; a close event with another code or without the
\* text, and an error event, make it fail, and nothing is launched after a
\* failure.  With EMACS_INTEGRATION false the check fails with 'Emacs
\* integration is disabled' and spawns no process.
CheckSucceedsOnlyOnCleanExit ==
  /\ \A req \in Requests :
       /\ req.settled = "resolved" =>
            req.by = "close" /\ req.code = "0" /\ req.output = "GNU Emacs"
       /\ (req.by = "close" /\ (req.code # "0" \/ req.output # "GNU Emacs")) =>
            req.settled = "rejected"
       /\ req.by = "error" => req.settled = "rejected"
       /\ req.settled = "rejected" => req.trace = <<"check">> /\ req.editor = "none"
  /\ EMACS_INTEGRATION = "false" =>
       /\ requests = <<>>
       /\ (lastAction = "openInEmacs" /\ ~parsed.hasError
             /\ Len(parsed.dataValues) > 0) =>
            errorMessage = displayError(DisabledMessage)

\* a check process closed with code 0 and the text, and the editor was spawned
CheckSucceedsOnlyOnCleanExitWitness ==
  \E req \in Requests :
    /\ req.settled = "resolved"
    /\ req.code = "0"
    /\ req.output = "GNU Emacs"
    /\ req.editor = "spawned"

\* C18: when the timeout fires on a check that has neither closed nor
\* reported an error, the process is killed, the check fails, its message is
\* shown, and nothing is retried: no second check is spawned for the request,
\* no script is written and no editor is launched, then or later.
TimeoutIsFinal ==
  /\ [](\A k \in 1..Len(requests) :
          requests[k].by = "timeout" =>
            /\ requests[k].settled = "rejected"
            /\ requests[k].killed
            /\ requests[k].timer = "fired"
            /\ requests[k].trace = <<"check">>
            /\ requests[k].editor = "none"
            /\ requests[k].cleanup = "none"
            /\ tempScript # k)
  /\ [][\A k \in 1..Len(requests) :
          (requests[k].by = "none" /\ requests'[k].by = "timeout") =>
            /\ ~requests[k].closed /\ ~requests[k].errored
            /\ errorMessage' = displayError(TimedOutMessage)
            /\ Len(requests') = Len(requests)
            /\ tempScript' = tempScript]_vars

\* a check timed out, and its process closed afterwards
TimeoutIsFinalWitness ==
  \E req \in Requests :
    /\ req.by = "timeout"
    /\ req.closed
    /\ req.trace = <<"check">>

\* C19: no error leaves a user-triggered handler or a timer or process
\* callback uncaught, whatever the texts, the colour settings and the
\* outcomes of the file and process operations are.
NoUncaughtError == ~uncaught

\* the steps of one request, in the order openInEmacs takes them
StepOrder == <<"check", "write", "spawn", "schedule">>

IsPrefix(s, t) == Len(s) <= Len(t) /\ s = SubSeq(t, 1, Len(s))

\* C20: within one request the steps come in the order: parse succeeds, the
\* check is spawned and succeeds, the script is written to temp-bar-graph.el,
\* the editor is spawned with --no-splash --load <script>, the deletion of
\* the script is scheduled; when the parse fails, the data is empty or the
\* check fails, no script is written and no editor is spawned.
LaunchStepsInOrder ==
  /\ [](/\ \A k \in 1..Len(requests) :
             LET req == requests[k]
             IN  /\ Len(req.dataValues) > 0
                 /\ Len(req.dataValues) = Len(req.labels)
                 /\ IsPrefix(req.trace, StepOrder)
                 /\ Len(req.trace) >= 1
                 /\ Len(req.trace) > 1 =>
                      /\ req.settled = "resolved"
                      /\ req.by = "close"
                 /\ req.settled # "resolved" => tempScript # k
                 /\ req.editor # "none" <=> Len(req.trace) >= 3
                 /\ req.editor # "none" => req.arguments = EditorArguments
                 /\ req.cleanup # "none" <=> Len(req.trace) = 4
        /\ tempScript # 0 =>
             /\ tempScript \in 1..Len(requests)
             /\ Len(requests[tempScript].trace) >= 2)
  /\ [][(lastAction' = "openInEmacs"
           /\ (parsed'.hasError \/ Len(parsed'.dataValues) = 0)) =>
          /\ requests' = requests
          /\ tempScript' = tempScript
          /\ errorMessage' \in {FixInputMessage, NoDataMessage}]_vars

\* a request went through all its steps and its script is on disk
LaunchStepsInOrderWitness ==
  /\ tempScript = 1
  /\ requests[1].trace = StepOrder
  /\ requests[1].arguments = <<"--no-splash", "--load", "temp-bar-graph.el">>
  /\ requests[1].cleanup = "armed"

----------------------------------------------------------------------------
(* Properties of the exported document *)

\* C21: the SVG exported for a valid series of n >= 1 entries is 760 wide
\* and 400 high and holds one white background, n bars, n bar labels, two
\* axis lines and two axis values (the maximum and 0); bar i is filled with
\* colour i of the colour assignment.
SvgDocumentStructure ==
  (SvgExported /\ ~parsed.hasError) =>
    LET doc == download.picture
        n == Len(parsed.dataValues)
    IN  /\ n >= 1
        /\ doc.width = 760 /\ doc.height = 400
        /\ doc.bg = "white"
        /\ Len(doc.bars) = n
        /\ Len(doc.labels) = n
        /\ \A i \in 1..n : doc.labels[i].text = parsed.labels[i]
        /\ Len(doc.axes) = 2
        /\ Len(doc.ticks) = 2
        /\ doc.ticks[1].value = toFixed1(MathMax(parsed.dataValues))
        /\ doc.ticks[2].value = Num(0)
        /\ ~CurrentColors(n).throws
        /\ \A i \in 1..n : doc.bars[i].fill = CurrentColors(n).colors[i]

\* four bars were exported in rainbow mode, every bar in its own hue
SvgDocumentStructureWitness ==
  /\ SvgExported
  /\ colorMode = "rainbow"
  /\ Len(download.picture.bars) = 4
  /\ Len(download.picture.labels) = 4
  /\ download.picture.bars[1].fill # download.picture.bars[4].fill

----------------------------------------------------------------------------
(* Properties of the colour controls *)

\* C22: after any sequence of colour-mode changes the secondary-colour
\* control and its label are visible exactly in gradient mode, the
\* custom-colours control and its label exactly in custom mode, and never
\* both at once.
ControlsFollowMode ==
  /\ secondaryDisplay = "inline-block" <=> colorMode = "gradient"
  /\ customDisplay = "inline-block" <=> colorMode = "custom"
  /\ secondaryDisplay \in {"inline-block", "none"}
  /\ customDisplay \in {"inline-block", "none"}
  /\ ~(secondaryDisplay = "inline-block" /\ customDisplay = "inline-block")

\* the mode was changed more than once and ended in custom mode
ControlsFollowModeWitness ==
  /\ lastAction = "colorMode"
  /\ steps >= 2
  /\ colorMode = "custom"
  /\ customDisplay = "inline-block"
  /\ secondaryDisplay = "none"

----------------------------------------------------------------------------
(* Properties of the empty series *)

EmptyTesting == {"plot", "exportSVG", "openInEmacs"}

\* C23: for every pair of input texts a successful parse has at least one
\* entry, since splitting the label text always yields at least one label,
\* and a failed parse returns both lists empty; so the 'no data' branches of
\* drawGraph, exportSVG and openInEmacs are reached only after a failed parse.
NoDataOnlyAfterFailedParse ==
  /\ Len(ParsedLabels(labelsInput)) >= 1
  /\ lastAction \in EmptyTesting =>
       /\ parsed = CurrentParse
       /\ ~parsed.hasError =>
            Len(parsed.dataValues) >= 1 /\ Len(parsed.labels) >= 1
       /\ parsed.hasError => parsed.dataValues = <<>> /\ parsed.labels = <<>>
       /\ (lastAction = "plot" /\ canvas = ClearedPicture) => parsed.hasError
       /\ (lastAction = "exportSVG" /\ download = NoDownload) => parsed.hasError
       /\ errorMessage # NoDataMessage

\* SVG export took its 'no data' branch on two empty texts, whose parse
\* failed: no value against one empty label
NoDataOnlyAfterFailedParseWitness ==
  /\ lastAction = "exportSVG"
  /\ valuesInput = <<>>
  /\ labelsInput = <<>>
  /\ parsed.hasError
  /\ parsed.dataValues = <<>>
  /\ download = NoDownload

----------------------------------------------------------------------------
(* Properties of the plotting rectangle *)

\* a series as the specification defines it: every value finite and >= 0
FiniteSeries(values) ==
  \A i \in 1..Len(values) : isFinite(values[i]) /\ LessEq(Num(0), values[i])

RightEdge(bar) == Plus(bar.x, bar.w)

\* the bars start at sidePad or later, are barSpacing apart and are between
\* 0 and height - topPad - bottomPad high
BarsAligned(bars) ==
  /\ \A i \in 1..Len(bars) :
       /\ LessEq(Num(sidePadding), bars[i].x)
       /\ LessEq(Num(0), bars[i].h)
       /\ LessEq(bars[i].h, Num(CanvasHeight - topPadding - bottomPadding))
  /\ \A i \in 1..(Len(bars) - 1) :
       Minus(bars[i + 1].x, RightEdge(bars[i])) = Num(barSpacing)

\* no bar ends to the right of width - sidePad
BarsFit(bars) ==
  \A i \in 1..Len(bars) :
    LessEq(RightEdge(bars[i]), Num(CanvasWidth - sidePadding))

\* the largest number of bars whose spacing leaves room for a bar width
FittingBars == (CanvasWidth - 2 * sidePadding) \div barSpacing

----------------------------------------------------------------------------
(* Properties of concurrent requests *)

\* how often a request spawned the editor
Launches(req) ==
  Cardinality({i \in DOMAIN req.trace : req.trace[i] = "spawn"})

\* an event of the availability check of request k is delivered in this step
CheckEvent(k) ==
  \/ requests'[k].closed # requests[k].closed
  \/ requests'[k].errored # requests[k].errored
  \/ requests'[k].timer # requests[k].timer

\* C25: the result of an availability check is decided by the first of the
\* close, error and timeout events; an event that arrives later changes
\* neither the result nor the displayed message, and one request launches the
\* editor at most once.
FirstEventDecides ==
  /\ [](\A k \in 1..Len(requests) :
          /\ Launches(requests[k]) <= 1
          /\ requests[k].settled = "pending" <=> requests[k].by = "none"
          /\ requests[k].editor # "none" =>
               requests[k].settled = "resolved" /\ requests[k].by = "close")
  /\ [][\A k \in 1..Len(requests) :
          requests[k].settled # "pending" =>
            /\ requests'[k].settled = requests[k].settled
            /\ requests'[k].by = requests[k].by
            /\ requests'[k].trace = requests[k].trace
            /\ CheckEvent(k) =>
                 /\ errorMessage' = errorMessage
                 /\ tempScript' = tempScript]_vars

\* the close event resolved a check and the editor was launched; the timeout
\* of that check fired afterwards
FirstEventDecidesWitness ==
  \E k \in 1..Len(requests) :
    /\ requests[k].by = "close"
    /\ requests[k].settled = "resolved"
    /\ requests[k].timer = "fired"
    /\ requests[k].editor = "spawned"
    /\ Launches(requests[k]) = 1
    /\ errorMessage = ""

\* the request has ended: its check is settled, and openInEmacs ran to its
\* end in the turn that settled it
Finished(k) == Len(requests) >= k /\ requests[k].settled # "pending"

\* C26: every Open-in-Emacs request eventually finishes, whatever the check
\* process does (closes, errors, never responds), and it ends with an error
\* message displayed or with the editor launched, given that timers fire.
RequestsFinish ==
  /\ \A k \in 1..MaxRequests : [](Len(requests) >= k => <>Finished(k))
  /\ [][\A k \in 1..Len(requests) :
          (requests[k].settled = "pending" /\ requests'[k].settled # "pending")
            => \/ errorMessage' # "" /\ requests'[k].editor = "none"
               \/ errorMessage' = "" /\ requests'[k].editor = "spawned"]_vars
  /\ [][lastAction' = "openInEmacs" =>
          \/ errorMessage' # CheckingMessage /\ errorMessage' # ""
               /\ requests' = requests
          \/ errorMessage' = CheckingMessage
               /\ Len(requests') = Len(requests) + 1]_vars

\* a check process that never responded: the request was ended by the
\* timeout alone, with its message displayed
RequestsFinishWitness ==
  /\ Len(requests) >= 1
  /\ \A k \in 1..Len(requests) :
       /\ requests[k].by = "timeout"
       /\ ~requests[k].closed
       /\ ~requests[k].errored
       /\ requests[k].timer = "fired"
  /\ errorMessage = TimedOutMessage

\* C27: when Open-in-Emacs requests overlap, the script a request wrote
\* stays on disk until the cleanup of that same request fires; the cleanup
\* of an earlier request does not delete the file a later request wrote to
\* the shared path.
ScriptKeptUntilOwnCleanup ==
  [][(/\ tempScript # 0
       /\ requests[tempScript].editor = "spawned"
       /\ requests[tempScript].cleanup = "armed"
       /\ tempScript' = 0)
        => requests'[tempScript].cleanup = "done"]_vars

\* request k launches the editor in this step
Launching(k) ==
  requests[k].editor = "none" /\ requests'[k].editor = "spawned"

\* C28: after a Plot click that found a count mismatch the validation
\* message stays displayed until the next user action: the completion of a
\* check that was still pending neither clears nor replaces it, and no
\* request hands the editor data that the user has since replaced by invalid
\* input.
PendingCheckKeepsValidation ==
  [][(parsed.hasError /\ errorMessage = MismatchMessage
        /\ lastAction' = "callback") =>
       /\ errorMessage' = MismatchMessage
       /\ \A k \in 1..Len(requests) : Launching(k) => ~CurrentParse.hasError]_vars

----------------------------------------------------------------------------
(* Properties of the two uses of the flag *)

\* the Open-in-Emacs handler ran on valid input and rejected with 'Emacs
\* integration is disabled'
RejectedAsDisabled == errorMessage = DisabledMessage

\* C29: for every content of config.h the Emacs section is shown exactly
\* when the availability check treats the integration as enabled (does not
\* reject with 'Emacs integration is disabled'): the two uses of the
\* EMACS_INTEGRATION flag never disagree.
FlagUsesAgree ==
  /\ emacsSectionDisplay = "block" <=> EMACS_INTEGRATION # "false"
  /\ (lastAction = "openInEmacs" /\ ~parsed.hasError) =>
       (emacsSectionDisplay = "block" <=> ~RejectedAsDisabled)

----------------------------------------------------------------------------
(* Properties of the Emacs rendition *)

\* the distance of a number of bar characters from the exact height is at
\* most one half
RoundedFrom(bar, exact) ==
  /\ LessEq(Minus(Num(2 * bar), Num(1)), Times(Num(2), exact))
  /\ LessEq(Times(Num(2), exact), Plus(Num(2 * bar), Num(1)))

\* C30: in the Emacs rendition of the data the Electron app hands over,
\* bar-graph-normalize-data maps every value v to v * bar-graph-height / max:
\* the largest value gets bar-graph-height bar characters and every other
\* value the rounded share v / max of them; when the maximum is not positive
\* the values are left unchanged.
RenditionProportional ==
  \A req \in Requests :
    req.rendition.status = "drawn" =>
      LET data == req.rendition.data
          max == LispMax(data).value
      IN  /\ Len(req.rendition.normalized) = Len(data)
          /\ Len(req.rendition.bars) = Len(data)
          /\ IF Less(Num(0), max)
             THEN \A i \in 1..Len(data) :
                    LET exact == Over(Times(data[i].value, Num(bar_graph_height)),
                                      max)
                    IN  /\ req.rendition.normalized[i].value = exact
                        /\ RoundedFrom(req.rendition.bars[i], exact)
                        /\ data[i].value = max =>
                             req.rendition.bars[i] = bar_graph_height
             ELSE req.rendition.normalized = data

====
